---- MODULE Spec2Model ----
(***************************************************************************)
(* Model of src/index.js of express-payauth: the capability registry and   *)
(* router composition of buildRouter / buildPaymailRouter, and the         *)
(* request-time dispatch of the pipeline it returns.                       *)
(*                                                                         *)
(* Strings are sequences of tokens: "/", ":", "?", "&", "#", "!" and "@"   *)
(* are tokens of their own, every other token is a run of characters that  *)
(* holds none of them (a scheme, a host, a path segment, a placeholder).   *)
(* JavaScript values are tagged sequences <<type, ...>>.                   *)
(***************************************************************************)
EXTENDS Integers, Sequences, FiniteSets, TLC

VARIABLES args, heap, pipelines, lastCall, requests

vars == <<args, heap, pipelines, lastCall, requests>>

\* Bounds of the model.
MaxCalls == 1
MaxRebuilds == 1
MaxRequests == 2
MaxPending == 1

-----------------------------------------------------------------------------
\* JavaScript values

Undefined == <<"undefined">>
Absent == <<"absent">>
JsBool(b) == <<"boolean", IF b THEN "true" ELSE "false">>
JsStr(s) == <<"string">> \o s
JsFn(name) == <<"function", name>>
JsObj(id) == <<"object", id>>

TypeOf(v) == v[1]
StrOf(v) == Tail(v)

\* Reading a property: a key the object does not have reads as undefined.
Get(v) == IF v = Absent THEN Undefined ELSE v

\* ToBoolean: undefined, false and the empty string are falsy.
Truthy(v) == Get(v) \notin {Undefined, JsBool(FALSE), JsStr(<<>>)}

\* Objects used as maps: a function from its own keys to values.
EmptyMap == [k \in {} |-> Undefined]
Put(m, k, v) == [x \in DOMAIN m \cup {k} |-> IF x = k THEN v ELSE m[x]]

-----------------------------------------------------------------------------
\* String helpers on token sequences

RECURSIVE StripLeading(_)
StripLeading(s) == IF s # <<>> /\ Head(s) = "/" THEN StripLeading(Tail(s)) ELSE s

RECURSIVE StripTrailing(_)
StripTrailing(s) ==
  IF s # <<>> /\ s[Len(s)] = "/" THEN StripTrailing(SubSeq(s, 1, Len(s) - 1)) ELSE s

CollapseTrailing(s) ==
  IF s # <<>> /\ s[Len(s)] = "/" THEN Append(StripTrailing(s), "/") ELSE s

StartsWith(s, p) == Len(p) <= Len(s) /\ SubSeq(s, 1, Len(p)) = p

Contains(s, tok) == \E i \in 1..Len(s) : s[i] = tok

Special == {"/", ":", "?", "&", "#", "!", "@"}

-----------------------------------------------------------------------------
\* new URL(input) of Node's url module (src/index.js:17), for http(s) inputs

SpecialSchemes == {"https", "http"}

\* The tokens of s before its first "?" or "#".
RECURSIVE PathPart(_)
PathPart(s) ==
  IF s = <<>> \/ Head(s) \in {"?", "#"} THEN <<>> ELSE <<Head(s)>> \o PathPart(Tail(s))

\* The URL serializer percent-encodes braces (and the other characters of
\* the path percent-encode set) in a path segment.
PercentEncode(tok) ==
  CASE tok = "{alias}" -> "%7Balias%7D"
    [] tok = "{domain.tld}" -> "%7Bdomain.tld%7D"
    [] tok = "{pubkey}" -> "%7Bpubkey%7D"
    [] tok = "{user}" -> "%7Buser%7D"
    [] tok = "{app}" -> "%7Bapp%7D"
    [] OTHER -> tok

EncodePath(s) == [i \in 1..Len(s) |-> PercentEncode(s[i])]

\* Whether the input parses as an absolute URL: a scheme, ":" and a host.
CanParseUrl(raw) ==
  /\ Len(raw) >= 3
  /\ raw[1] \in SpecialSchemes
  /\ raw[2] = ":"
  /\ StripLeading(SubSeq(raw, 3, Len(raw))) # <<>>
  /\ Head(StripLeading(SubSeq(raw, 3, Len(raw)))) \notin Special

ParseUrl(raw) ==
  LET rest == StripLeading(SubSeq(raw, 3, Len(raw)))
      host == Head(rest)
      after == Tail(rest)
      path == PathPart(after)
      tail == SubSeq(after, Len(path) + 1, Len(after))
      origin == <<raw[1], ":", "/", "/", host>>
  IN  [ protocol |-> <<raw[1], ":">>,
        hostname |-> <<host>>,
        origin   |-> origin,
        pathname |-> IF path = <<>> THEN <<"/">> ELSE EncodePath(path),
        search   |-> tail,
        href     |-> origin \o (IF path = <<>> THEN <<"/">> ELSE EncodePath(path)) \o tail ]

\* The TypeError new URL throws on an input that is no absolute URL.
InvalidUrlError(raw) ==
  [ name |-> "TypeError", message |-> <<"Invalid URL">>,
    code |-> "ERR_INVALID_URL", input |-> raw ]

\* new Error(message, options): the cause is taken from options.cause, and
\* only when options has a property of that name.
ErrorCtor(message, options) ==
  [ name    |-> "Error",
    message |-> message,
    cause   |-> IF "cause" \in DOMAIN options THEN <<options.cause>> ELSE <<>> ]

\* /^locahost:?\d*$/ on a hostname: the literal of the source.
MatchesLocahost(hostname) == hostname = <<"locahost">>

validateBaseUrl(url) ==
  IF CanParseUrl(url)
    THEN [ ok    |-> TRUE,
           url   |-> ParseUrl(url),
           warn  |-> ParseUrl(url).protocol # <<"https", ":">>
                       /\ MatchesLocahost(ParseUrl(url).hostname),
           error |-> <<>> ]
    ELSE [ ok    |-> FALSE,
           url   |-> ParseUrl(<<"https", ":", "invalid">>),
           warn  |-> FALSE,
           error |-> <<ErrorCtor(<<"Invalid base url: ">> \o url, InvalidUrlError(url))>> ]

-----------------------------------------------------------------------------
\* url-join (src/index.js:16), its normalize function

\* strArray[0].replace(/^([^/:]+):\/*/, '$1://').  The first part is always
\* the href of an http(s) URL here, so the branches of normalize for a bare
\* protocol and for file: URLs are never taken.
NormalizeProtocol(s) ==
  IF Len(s) >= 2 /\ s[1] \notin Special /\ s[2] = ":"
    THEN <<s[1], ":", "/", "/">> \o StripLeading(SubSeq(s, 3, Len(s)))
    ELSE s

\* One component of the loop: leading slashes removed from every component
\* but the first, trailing slashes removed from every one but the last.
Component(s, i, n) ==
  LET a == IF i > 1 THEN StripLeading(s) ELSE s
  IN  IF i < n THEN StripTrailing(a) ELSE CollapseTrailing(a)

\* resultArray.join('/') over the components that are not the empty string
\* (the test for '' comes before the slashes are removed).
RECURSIVE JoinFrom(_, _)
JoinFrom(parts, i) ==
  IF i > Len(parts) THEN <<>>
  ELSE IF parts[i] = <<>> THEN JoinFrom(parts, i + 1)
  ELSE LET rest == JoinFrom(parts, i + 1)
           more == \E j \in (i + 1)..Len(parts) : parts[j] # <<>>
       IN  Component(parts[i], i, Len(parts)) \o (IF more THEN <<"/">> ELSE <<>>) \o rest

\* str.replace(/\/(\?|&|#[^!])/g, '$1')
RECURSIVE DropSlashBeforeQuery(_)
DropSlashBeforeQuery(s) ==
  IF s = <<>> THEN <<>>
  ELSE IF /\ Head(s) = "/"
          /\ Len(s) >= 2
          /\ \/ s[2] \in {"?", "&"}
             \/ s[2] = "#" /\ Len(s) >= 3 /\ s[3] # "!"
       THEN DropSlashBeforeQuery(Tail(s))
       ELSE <<Head(s)>> \o DropSlashBeforeQuery(Tail(s))

\* parts = str.split('?'); parts.shift() + '?' + parts.join('&')
RECURSIVE AmpersandAfterFirstQuery(_, _)
AmpersandAfterFirstQuery(s, seen) ==
  IF s = <<>> THEN <<>>
  ELSE IF Head(s) = "?"
    THEN <<IF seen THEN "&" ELSE "?">> \o AmpersandAfterFirstQuery(Tail(s), TRUE)
    ELSE <<Head(s)>> \o AmpersandAfterFirstQuery(Tail(s), seen)

urljoin(parts) ==
  LET first == [parts EXCEPT ![1] = NormalizeProtocol(parts[1])]
  IN  AmpersandAfterFirstQuery(DropSlashBeforeQuery(JoinFrom(first, 1)), FALSE)

joinUrls(parts) == urljoin(parts)

getBaseRoute(config) ==
  IF Truthy(config.basePath) THEN StrOf(config.basePath) ELSE <<"/">>

-----------------------------------------------------------------------------
\* The sub-protocols, in the order their registrars run (src/index.js:86-126)

RegistrarOrder ==
  << "identity", "paymentDestination", "verifyPubkey", "publicProfile",
     "receiveTransaction", "p2pPaymentDestination",
     "p2pPaymentDestinationTokens", "assetInformation" >>

Protocols == {RegistrarOrder[i] : i \in 1..Len(RegistrarOrder)}

\* ./constants is not part of the sources: one reserved code per capability.
CapabilityCodes ==
  [ requestSenderValidation |-> "6745385c3fc0",
    verifyPublicKeyOwner |-> "a9f510c16bde",
    publicProfile |-> "f12f968c92d6",
    receiveTransaction |-> "5f1323cddf31",
    p2pPaymentDestination |-> "2a40af698840",
    p2pPaymentDestinationWithTokensSupport |-> "f792b6eff07a",
    assetInformation |-> "1300361cb2d4" ]

\* The key each onMounted callback writes.
CapabilityKey(p) ==
  CASE p = "identity" -> "pki"
    [] p = "paymentDestination" -> "paymentDestination"
    [] p = "verifyPubkey" -> CapabilityCodes.verifyPublicKeyOwner
    [] p = "publicProfile" -> CapabilityCodes.publicProfile
    [] p = "receiveTransaction" -> CapabilityCodes.receiveTransaction
    [] p = "p2pPaymentDestination" -> CapabilityCodes.p2pPaymentDestination
    [] p = "p2pPaymentDestinationTokens" ->
         CapabilityCodes.p2pPaymentDestinationWithTokensSupport
    [] p = "assetInformation" -> CapabilityCodes.assetInformation

AliasAtDomain == <<"{alias}", "@", "{domain.tld}">>

\* The path each onMounted callback joins to the base URL and base route.
CapabilityPath(p) ==
  CASE p = "identity" -> <<"/", "id", "/">> \o AliasAtDomain
    [] p = "paymentDestination" -> <<"/", "address", "/">> \o AliasAtDomain
    [] p = "verifyPubkey" ->
         <<"/", "verifypubkey", "/">> \o AliasAtDomain \o <<"/", "{pubkey}">>
    [] p = "publicProfile" -> <<"/", "public-profile", "/">> \o AliasAtDomain
    [] p = "receiveTransaction" -> <<"/", "receive-transaction", "/">> \o AliasAtDomain
    [] p = "p2pPaymentDestination" ->
         <<"/", "p2p-payment-destination", "/">> \o AliasAtDomain
    [] p = "p2pPaymentDestinationTokens" ->
         <<"/", "p2p-payment-destination-tokens-support", "/">> \o AliasAtDomain
    [] p = "assetInformation" -> <<"/", "asset", "/">> \o AliasAtDomain

FixedKeys == {"userDomain", "userDomainResponse", "userInfo"}

FixedPath(k) ==
  CASE k = "userDomain" -> <<"/", "oauth", "/", "{user}", "@", "{domain.tld}">>
    [] k = "userDomainResponse" ->
         <<"/", "oauth", "/", "response", "/", "{app}", "@", "{domain.tld}">>
    [] k = "userInfo" ->
         <<"/", "payauth", "/", "userinfo", "/", "{user}", "@", "{domain.tld}">>

\* Mutant of Template: the joined string is parsed and serialized again,
\* which percent-encodes the braces of the placeholders.
TemplateReparsed(url, config, path) ==
  JsStr(ParseUrl(joinUrls(<<url.href, getBaseRoute(config), path>>)).href)

\* joinUrls(baseUrl.href, getBaseRoute(config), path)
Template(url, config, path) ==
  JsStr(joinUrls(<<url.href, getBaseRoute(config), path>>))

-----------------------------------------------------------------------------
\* Stages of a pipeline

Stage(kind, path, handlers) == [kind |-> kind, path |-> path, handlers |-> handlers]

BodyParserStage == Stage("bodyParser", <<>>, <<>>)
CorsStage == Stage("cors", <<>>, <<>>)
DiscoveryStage == Stage("discovery", <<"/", ".well-known", "/", "bsvalias">>, <<>>)
ApiStage(route, handlers) == Stage("api", route, handlers)
ErrorStage == Stage("errorHandler", <<>>, <<>>)

-----------------------------------------------------------------------------
\* buildPaymailRouter, step by step.  b is the state of one build:
\* base (the stages of baseRouter), api (the handlers of apiRouter) and caps
\* (the content of the capabilities object).

\* A registrar decides from the configuration whether it is enabled, and
\* calls onMounted exactly when it is (the registrars are not part of the
\* sources; this is their contract).
RegistrarInvokes(p, config) == p \in config.callbacks

\* src/index.js:78-80
InstallCors(base, config) ==
  IF Truthy(config.useCors) THEN Append(base, CorsStage) ELSE base

\* Mutant of SeedSenderValidation: the toggle is stored as given, without !!.
SeedSenderValidationRaw(caps, config) ==
  Put(caps, CapabilityCodes.requestSenderValidation, Get(config.requestSenderValidation))

\* src/index.js:84
SeedSenderValidation(caps, config) ==
  Put(caps, CapabilityCodes.requestSenderValidation,
      JsBool(Truthy(config.requestSenderValidation)))

\* Mutant of OnMounted: the entry is written but the router is not mounted.
OnMountedEntryOnly(b, p, url, config) ==
  [b EXCEPT !.caps = Put(@, CapabilityKey(p), Template(url, config, CapabilityPath(p)))]

\* The callback handed to the registrar of p: apiRouter.use(router), then
\* the capability entry.
OnMounted(b, p, url, config) ==
  [b EXCEPT !.api = Append(@, p),
            !.caps = Put(@, CapabilityKey(p), Template(url, config, CapabilityPath(p)))]

RunRegistrar(b, p, url, config) ==
  IF RegistrarInvokes(p, config) THEN OnMounted(b, p, url, config) ELSE b

\* src/index.js:86-126, the registrars from the i-th on.
RECURSIVE RunRegistrars(_, _, _, _)
RunRegistrars(b, i, url, config) ==
  IF i > Len(RegistrarOrder) THEN b
  ELSE RunRegistrars(RunRegistrar(b, RegistrarOrder[i], url, config), i + 1, url, config)

\* Mutant of FixedEntries: the userInfo entry is left out.
FixedEntriesWithoutUserInfo(caps, url, config) ==
  Put(Put(caps, "userDomain", Template(url, config, FixedPath("userDomain"))),
      "userDomainResponse", Template(url, config, FixedPath("userDomainResponse")))

\* src/index.js:128-130
FixedEntries(caps, url, config) ==
  LET c1 == Put(caps, "userDomain", Template(url, config, FixedPath("userDomain")))
      c2 == Put(c1, "userDomainResponse",
                Template(url, config, FixedPath("userDomainResponse")))
  IN  Put(c2, "userInfo", Template(url, config, FixedPath("userInfo")))

\* Mutant of MountRoutes: apiRouter is mounted before the discovery route.
MountRoutesApiFirst(base, api, config) ==
  Append(Append(base, ApiStage(getBaseRoute(config), api)), DiscoveryStage)

\* src/index.js:132-140: the discovery route, then apiRouter under the base route.
MountRoutes(base, api, config) ==
  Append(Append(base, DiscoveryStage), ApiStage(getBaseRoute(config), api))

\* baseRouter.use(fn) of express throws a TypeError unless fn is a function.
IsMiddleware(v) == TypeOf(Get(v)) = "function"

UseError ==
  [ name |-> "TypeError",
    message |-> <<"Router.use() requires a middleware function">>,
    cause |-> <<>> ]

\* Mutant of InstallErrorHandler: the error handler is installed before the
\* stage mounted last (apiRouter) instead of after it.
InstallErrorHandlerBeforeApi(base, config) ==
  SubSeq(base, 1, Len(base) - 1) \o <<ErrorStage, base[Len(base)]>>

\* src/index.js:142
InstallErrorHandler(base, config) == Append(base, ErrorStage)

\* src/index.js:82: the capabilities object of the configuration when it has
\* one, a new object otherwise.  Objects are named in allocation order.
ObjectNames == <<"o1", "o2", "o3", "o4", "o5", "o6">>
NewObject(h) == ObjectNames[Cardinality(DOMAIN h) + 1]
CapabilitiesRef(config, h) ==
  IF Truthy(config.capabilities) THEN config.capabilities[2] ELSE NewObject(h)

\* src/index.js:72-145.  The result: how the call ended, the heap it leaves
\* and the pipeline it returns (none when it threw).
buildPaymailRouter(baseUrl, config, h) ==
  LET v    == validateBaseUrl(baseUrl)
      ref  == CapabilitiesRef(config, h)
      old  == IF ref \in DOMAIN h THEN h[ref] ELSE EmptyMap
      base == InstallCors(<<BodyParserStage>>, config)
      b0   == [base |-> base, api |-> <<>>, caps |-> SeedSenderValidation(old, config)]
      b1   == RunRegistrars(b0, 1, v.url, config)
      caps == FixedEntries(b1.caps, v.url, config)
      h2   == Put(h, ref, caps)
      top  == MountRoutes(b1.base, b1.api, config)
  IN  IF ~v.ok
        THEN [status |-> "threw", error |-> v.error, warned |-> FALSE,
              heap |-> h, pipeline |-> <<>>]
      ELSE IF ~IsMiddleware(config.errorHandler)
        THEN [status |-> "threw", error |-> <<UseError>>, warned |-> v.warn,
              heap |-> h2, pipeline |-> <<>>]
      ELSE [status |-> "returned", error |-> <<>>, warned |-> v.warn,
            heap |-> h2,
            pipeline |-> <<[stages |-> InstallErrorHandler(top, config), caps |-> ref]>>]

\* src/index.js:147-158: the defaults, overridden by the keys the caller gave.
WithDefault(v, d) == IF v = Absent THEN d ELSE v

MergeDefaults(config) ==
  [config EXCEPT !.useCors = WithDefault(@, JsBool(TRUE)),
                 !.errorHandler = WithDefault(@, JsFn("errorHandler"))]

buildRouter(baseDomain, config, h) ==
  buildPaymailRouter(baseDomain, MergeDefaults(config), h)

-----------------------------------------------------------------------------
\* The inputs a caller hands to buildRouter

BaseUrls ==
  { <<"https", ":", "/", "/", "example.com">>,
    <<"http", ":", "/", "/", "locahost">>,
    <<"https", ":", "/", "/", "example.com", "/", "app">>,
    <<"example.com">> }

BasePaths == {Absent, JsStr(<<"/", "api", "/">>)}
SenderValidations == {Absent, JsBool(TRUE), JsBool(FALSE)}
UseCorsValues == {Absent, JsBool(FALSE)}
ErrorHandlers == {Absent, Undefined}
CapabilityObjects == {Absent, JsObj("o1")}

\* What a capabilities object of the caller may hold before the call: a
\* capability of the caller's own, or entries left by an earlier use.
Seeds ==
  { Put(EmptyMap, "customCapability", JsStr(<<"https", ":", "/", "/", "other.example">>)),
    Put(Put(EmptyMap, "pki", JsStr(<<"stale">>)),
        CapabilityCodes.requestSenderValidation, JsStr(<<"stale">>)) }

Configs ==
  [ callbacks : SUBSET Protocols,
    basePath : BasePaths,
    requestSenderValidation : SenderValidations,
    useCors : UseCorsValues,
    errorHandler : ErrorHandlers,
    capabilities : CapabilityObjects ]

NoConfig ==
  [ callbacks |-> {}, basePath |-> Absent, requestSenderValidation |-> Absent,
    useCors |-> Absent, errorHandler |-> Absent, capabilities |-> Absent ]

NoCall ==
  [ n |-> 0, baseUrl |-> <<>>, config |-> NoConfig, status |-> "none",
    error |-> <<>>, warned |-> FALSE ]

\* The heap before the first call: the caller's capabilities object, if the
\* configuration has one.
InitialHeaps(config) ==
  IF config.capabilities = Absent THEN {EmptyMap}
  ELSE {Put(EmptyMap, config.capabilities[2], seed) : seed \in Seeds}

-----------------------------------------------------------------------------
\* The state machine

Init ==
  /\ args \in [baseUrl : BaseUrls, config : Configs]
  /\ heap \in InitialHeaps(args.config)
  /\ pipelines = <<>>
  /\ lastCall = NoCall
  /\ requests = <<>>

\* A call of buildRouter with the caller's arguments; at most limit calls
\* are followed.
Build(limit) ==
  /\ lastCall.n < limit
  /\ \E r \in {buildRouter(args.baseUrl, args.config, heap)} :
         /\ heap' = r.heap
         /\ pipelines' = pipelines \o r.pipeline
         /\ lastCall' = [ n |-> lastCall.n + 1,
                          baseUrl |-> args.baseUrl,
                          config |-> MergeDefaults(args.config),
                          status |-> r.status,
                          error |-> r.error,
                          warned |-> r.warned ]
  /\ UNCHANGED <<args, requests>>

Next == Build(MaxCalls)

Spec == Init /\ [][Next]_vars

-----------------------------------------------------------------------------
\* Further calls: between two calls the caller may pass another configuration,
\* which may hold the same capabilities object.

FewProtocols == {"identity", "verifyPubkey"}

FewConfigs ==
  [ callbacks : SUBSET FewProtocols,
    basePath : BasePaths,
    requestSenderValidation : {Absent, JsBool(TRUE)},
    useCors : UseCorsValues,
    errorHandler : {Absent},
    capabilities : CapabilityObjects ]

ValidBaseUrl == <<"https", ":", "/", "/", "example.com">>

InitFew ==
  /\ args \in [baseUrl : {ValidBaseUrl}, config : FewConfigs]
  /\ heap \in InitialHeaps(args.config)
  /\ pipelines = <<>>
  /\ lastCall = NoCall
  /\ requests = <<>>

Reconfigure ==
  /\ lastCall.n >= 1
  /\ lastCall.n < 1 + MaxRebuilds
  /\ \E c \in FewConfigs :
       /\ c # args.config
       /\ c.capabilities # Absent => c.capabilities[2] \in DOMAIN heap
       /\ args' = [args EXCEPT !.config = c]
  /\ UNCHANGED <<heap, pipelines, lastCall, requests>>

NextRebuild == Build(1 + MaxRebuilds) \/ Reconfigure

SpecRebuild == InitFew /\ [][NextRebuild]_vars

-----------------------------------------------------------------------------
\* Request time: how express runs a request through the stack of a pipeline.

\* The layers of a pipeline in the order express visits them: the stages of
\* baseRouter, with the handlers of apiRouter in the place of the API stage.
RECURSIVE Flatten(_)
Flatten(stages) ==
  IF stages = <<>> THEN <<>>
  ELSE LET st == Head(stages)
       IN  (IF st.kind = "api"
              THEN [j \in 1..Len(st.handlers) |->
                      [kind |-> "handler", name |-> st.handlers[j], route |-> st.path]]
              ELSE <<[kind |-> st.kind, name |-> st.kind, route |-> st.path]>>)
           \o Flatten(Tail(stages))

Layers(r) == Flatten(pipelines[r.pipe].stages)

Targets == {"discovery", "identity"}
Bodies == {"none", "json", "malformed"}

\* Whether express hands the request to a layer: with an error pending only
\* an error-handling middleware (four parameters) is called; without one, a
\* route is called when its path matches and a middleware when the request
\* path is under its mount path.
Accepts(layer, r) ==
  IF r.err # <<>> THEN layer.kind = "errorHandler"
  ELSE CASE layer.kind = "errorHandler" -> FALSE
         [] layer.kind = "discovery" -> r.target = "discovery"
         [] layer.kind = "handler" -> r.target # "discovery" \/ layer.route = <<"/">>
         [] OTHER -> TRUE

\* The first layer from position i on that the request is handed to, or 0.
RECURSIVE NextLayer(_, _, _)
NextLayer(layers, r, i) ==
  IF i > Len(layers) THEN 0
  ELSE IF Accepts(layers[i], r) THEN i
  ELSE NextLayer(layers, r, i + 1)

\* next() / next(err) of express, called with the request at position r.pos:
\* the request enters the next layer that accepts it, in the same turn; when
\* none is left the default handler of the server ends it.
Enter(layers, r) ==
  LET k == NextLayer(layers, r, r.pos)
  IN  IF k = 0
        THEN [r EXCEPT !.phase = "done", !.outcome = "unhandled"]
        ELSE [r EXCEPT !.phase = "running", !.pos = k, !.trail = Append(@, k)]

\* Mutant of DiscoveryDocument: the handler copies the request body into
\* the document.
DiscoveryDocumentEchoingBody(req, capabilities) ==
  [bsvalias |-> <<"1.0">>, capabilities |-> Put(capabilities, "echo", JsStr(<<req.body>>))]

\* The discovery handler, src/index.js:132-138.
DiscoveryDocument(req, capabilities) ==
  [bsvalias |-> <<"1.0">>, capabilities |-> capabilities]

NewRequest(i, target, body) ==
  [ pipe |-> i, target |-> target, body |-> body, pos |-> 1, phase |-> "running",
    err |-> <<>>, trail |-> <<>>, response |-> <<>>, outcome |-> "pending" ]

\* A request reaches a built pipeline and enters its first layer; at most
\* limit requests are followed.
Arrive(limit) ==
  /\ Len(requests) < limit
  /\ \E i \in 1..Len(pipelines), target \in Targets, body \in Bodies :
       requests' = Append(requests,
                          Enter(Flatten(pipelines[i].stages), NewRequest(i, target, body)))
  /\ UNCHANGED <<args, heap, pipelines, lastCall>>

Passes(layers, r) == Enter(layers, [r EXCEPT !.pos = @ + 1])
Fails(layers, r) == Enter(layers, [r EXCEPT !.err = <<r.pos>>, !.pos = @ + 1])
Responds(r, response, outcome) ==
  [r EXCEPT !.phase = "done", !.response = response, !.outcome = outcome]

\* What the layer a request is in may do with it: respond, call next() or
\* fail (next(err), a throw, or a rejection that asyncHandler passes on).
Outcomes(layers, r, h) ==
  LET layer == layers[r.pos]
  IN  CASE layer.kind = "bodyParser" ->
             IF r.body = "malformed" THEN {Fails(layers, r)} ELSE {Passes(layers, r)}
        [] layer.kind = "cors" -> {Passes(layers, r), Fails(layers, r)}
        [] layer.kind = "discovery" ->
             { Responds(r, <<DiscoveryDocument(r, h[pipelines[r.pipe].caps])>>, "responded"),
               Fails(layers, r) }
        [] layer.kind = "handler" ->
             IF r.target = layer.name
               THEN {Responds(r, <<>>, "responded"), Fails(layers, r)}
               ELSE {Passes(layers, r)}
        [] layer.kind = "errorHandler" -> {Responds(r, <<>>, "handled")}

\* The layer a request is in finishes.
Complete(n) ==
  /\ n \in 1..Len(requests)
  /\ requests[n].phase = "running"
  /\ \E r2 \in Outcomes(Layers(requests[n]), requests[n], heap) :
       requests' = [requests EXCEPT ![n] = r2]
  /\ UNCHANGED <<args, heap, pipelines, lastCall>>

\* The state after construction: a pipeline built from a valid base URL.
ServeConfigs ==
  [ callbacks : SUBSET FewProtocols,
    basePath : {Absent},
    requestSenderValidation : {Absent},
    useCors : UseCorsValues,
    errorHandler : {Absent},
    capabilities : {Absent} ]

InitServe ==
  /\ args \in [baseUrl : {ValidBaseUrl}, config : ServeConfigs]
  /\ \E r \in {buildRouter(args.baseUrl, args.config, EmptyMap)} :
       /\ heap = r.heap
       /\ pipelines = r.pipeline
       /\ lastCall = [ n |-> 1, baseUrl |-> args.baseUrl,
                       config |-> MergeDefaults(args.config), status |-> r.status,
                       error |-> r.error, warned |-> r.warned ]
  /\ requests = <<>>

Serve == Arrive(MaxRequests)

Handle == \E n \in 1..MaxRequests : Complete(n)

NextServe == Serve \/ Handle

SpecServe == InitServe /\ [][NextServe]_vars

\* The same pipeline, with the progress Node guarantees: it runs every
\* pending callback, so a layer that holds a request finishes with it.
Receive == Arrive(MaxPending)

Progress(n) == Complete(n)

NextDeliver == Receive \/ \E n \in 1..MaxPending : Progress(n)

Fairness == \A n \in 1..MaxPending : WF_vars(Progress(n))

SpecDeliver == InitServe /\ [][NextDeliver]_vars /\ Fairness

-----------------------------------------------------------------------------
\* Vocabulary of the properties

Returned == lastCall.status = "returned"
Threw == lastCall.status = "threw"

\* A step that is a call of buildRouter, and one that returns a pipeline.
IsCall == lastCall'.n = lastCall.n + 1
IsReturn == IsCall /\ lastCall'.status = "returned"

LastPipeline == pipelines[Len(pipelines)]
ServedMap(p) == heap[p.caps]

\* The sub-protocols whose registrar invokes onMounted under a configuration.
Enabled(config) == {p \in Protocols : RegistrarInvokes(p, config)}

\* The handlers mounted in the API pipeline of p.
Mounted(p) ==
  UNION { {p.stages[i].handlers[j] : j \in 1..Len(p.stages[i].handlers)} :
          i \in {k \in 1..Len(p.stages) : p.stages[k].kind = "api"} }

SenderValidationKey == CapabilityCodes.requestSenderValidation

BuildKeys(config) ==
  {CapabilityKey(p) : p \in Enabled(config)} \cup {SenderValidationKey} \cup FixedKeys

\* The keys of the capabilities object the caller supplied, before the call.
SuppliedKeys ==
  IF Truthy(args.config.capabilities) THEN DOMAIN heap[args.config.capabilities[2]] ELSE {}

-----------------------------------------------------------------------------
\* C1 (as stated): after a build returns, the keys of the served capability
\* map are exactly one per enabled sub-protocol, the sender-validation key and
\* the three fixed keys, for any configuration.
C1_ExactKeys ==
  Returned => DOMAIN ServedMap(LastPipeline) = BuildKeys(lastCall.config)

\* C1 (amended): when a build returns, the keys of the served capability map
\* are exactly the keys config.capabilities held before the call (none when it
\* is unset), one per enabled sub-protocol, the sender-validation key and the
\* three fixed keys.
C1_KeysWithSupplied ==
  [][IsReturn =>
       DOMAIN heap'[pipelines'[Len(pipelines')].caps]
         = BuildKeys(lastCall'.config) \cup SuppliedKeys]_vars

C1_Witness ==
  /\ Returned
  /\ lastCall.config.callbacks \notin {{}, Protocols}
  /\ "customCapability" \in DOMAIN ServedMap(LastPipeline)

\* C2 (as stated): after a build returns, a sub-protocol's handler is mounted
\* exactly when its capability entry is in the map.
C2_HandlerIffEntry ==
  Returned =>
    \A p \in Protocols :
      p \in Mounted(LastPipeline) <=> CapabilityKey(p) \in DOMAIN ServedMap(LastPipeline)

\* C2 (amended): when a build returns, a sub-protocol's handler is mounted
\* exactly when its registrar invoked onMounted; a mounted handler always has
\* its capability entry; and an entry without a mounted handler is one that
\* config.capabilities already held before the call.
C2_HandlerImpliesEntry ==
  [][IsReturn =>
       \A p \in Protocols :
         LET q == pipelines'[Len(pipelines')]
             has == CapabilityKey(p) \in DOMAIN heap'[q.caps]
         IN  /\ p \in Mounted(q) <=> p \in Enabled(lastCall'.config)
             /\ p \in Mounted(q) => has
             /\ (has /\ p \notin Mounted(q)) => CapabilityKey(p) \in SuppliedKeys]_vars

C2_Witness ==
  /\ Returned
  /\ "identity" \notin Mounted(LastPipeline)
  /\ "pki" \in DOMAIN ServedMap(LastPipeline)
  /\ "verifyPubkey" \in Mounted(LastPipeline)

\* C4: when the base URL does not parse as an absolute URL the build throws a
\* ConfigurationError carrying the input and the parse failure, runs no
\* registrar, mounts nothing, writes no entry and returns no pipeline.
C4_ConfigurationError ==
  (lastCall.n > 0 /\ ~CanParseUrl(lastCall.baseUrl)) =>
    /\ Threw
    /\ pipelines = <<>>
    /\ \A o \in DOMAIN heap : heap[o] \in Seeds
    /\ lastCall.error # <<>>
    /\ lastCall.error[1].name = "ConfigurationError"
    /\ lastCall.error[1].message = <<"Invalid base url: ">> \o lastCall.baseUrl
    /\ lastCall.error[1].cause = <<InvalidUrlError(lastCall.baseUrl)>>

Placeholders == {"{alias}", "{domain.tld}", "{pubkey}", "{user}", "{app}"}

NotEncoded(s) == \A i \in 1..Len(s) : s[i] \notin {PercentEncode(t) : t \in Placeholders}

\* The entries a build writes as URL templates.
TemplateKeys(config) == {CapabilityKey(p) : p \in Enabled(config)} \cup FixedKeys

\* C5 (as stated): every template entry begins with the base origin followed
\* by the base path and holds {alias} and {domain.tld} unencoded; the
\* public-key verification entry also holds {pubkey}.
C5_Templates ==
  Returned =>
    \A k \in TemplateKeys(lastCall.config) :
      LET s == StrOf(ServedMap(LastPipeline)[k])
      IN  /\ TypeOf(ServedMap(LastPipeline)[k]) = "string"
          /\ StartsWith(s, ParseUrl(lastCall.baseUrl).origin \o getBaseRoute(lastCall.config))
          /\ Contains(s, "{alias}") /\ Contains(s, "{domain.tld}")
          /\ NotEncoded(s)
          /\ k = CapabilityCodes.verifyPublicKeyOwner => Contains(s, "{pubkey}")

\* The base URL is an origin alone: no path, query or fragment.
OriginOnly(raw) == ParseUrl(raw).href = ParseUrl(raw).origin \o <<"/">>

\* The base path as url-join leaves it: one leading slash, no trailing one.
NormalizedBaseRoute(config) == <<"/">> \o StripTrailing(StripLeading(getBaseRoute(config)))

\* C5 (amended): every template entry holds {domain.tld} unencoded; a
\* sub-protocol's entry also holds {alias}, the three fixed entries hold
\* {user} or {app} in its place, the public-key verification entry also holds
\* {pubkey}; and when the base URL is an origin alone, every template entry
\* begins with that origin followed by the base path ("/" when unset) with
\* one leading slash and without trailing slashes.
C5_TemplatesAmended ==
  Returned =>
    \A k \in TemplateKeys(lastCall.config) :
      LET s == StrOf(ServedMap(LastPipeline)[k])
      IN  /\ TypeOf(ServedMap(LastPipeline)[k]) = "string"
          /\ OriginOnly(lastCall.baseUrl) =>
               StartsWith(s, ParseUrl(lastCall.baseUrl).origin
                               \o NormalizedBaseRoute(lastCall.config))
          /\ Contains(s, "{domain.tld}")
          /\ NotEncoded(s)
          /\ k \notin FixedKeys => Contains(s, "{alias}")
          /\ k \in FixedKeys => Contains(s, "{user}") \/ Contains(s, "{app}")
          /\ k = CapabilityCodes.verifyPublicKeyOwner => Contains(s, "{pubkey}")

C5_Witness ==
  /\ Returned
  /\ OriginOnly(lastCall.baseUrl)
  /\ Truthy(lastCall.config.basePath)
  /\ "verifyPubkey" \in Mounted(LastPipeline)

\* The handlers of the enabled sub-protocols, in registrar order.
EnabledInOrder(config) == SelectSeq(RegistrarOrder, LAMBDA p : p \in Enabled(config))

ExpectedStages(config) ==
  <<BodyParserStage>>
    \o (IF Truthy(config.useCors) THEN <<CorsStage>> ELSE <<>>)
    \o <<DiscoveryStage, ApiStage(getBaseRoute(config), EnabledInOrder(config)), ErrorStage>>

\* C6: the stages of a returned pipeline are, in order: body parsing, the
\* cross-origin stage exactly when useCors is set, the discovery endpoint, the
\* API pipeline with the enabled handlers in registrar order under the base
\* path, and the error-handling stage last.
C6_StageOrder ==
  Returned => LastPipeline.stages = ExpectedStages(lastCall.config)

C6_Witness ==
  /\ Returned
  /\ ~Truthy(lastCall.config.useCors)
  /\ Len(LastPipeline.stages[3].handlers) >= 3

\* C8: a call of buildRouter, returning or throwing, leaves the caller's
\* configuration and every object reachable from it as they were.
C8_ConfigUnchanged ==
  [][IsCall =>
       /\ args' = args
       /\ Truthy(args.config.capabilities) =>
            heap'[args.config.capabilities[2]] = heap[args.config.capabilities[2]]]_vars

\* C9: when a build returns, the sender-validation entry is the boolean that
\* is the truthiness of config.requestSenderValidation, whatever the
\* registrars and the later steps of the build wrote.
C9_SenderValidation ==
  Returned =>
    ServedMap(LastPipeline)[SenderValidationKey]
      = JsBool(Truthy(lastCall.config.requestSenderValidation))

C9_Witness ==
  /\ Returned
  /\ lastCall.config.requestSenderValidation = JsBool(TRUE)
  /\ Truthy(lastCall.config.capabilities)
  /\ Mounted(LastPipeline) = Protocols

-----------------------------------------------------------------------------
\* C3: once a build has returned a pipeline, no later step (a request or a
\* further call of buildRouter) changes the capability map it serves.
C3_MapFrozen ==
  [][\A i \in 1..Len(pipelines) :
       heap'[pipelines[i].caps] = heap[pipelines[i].caps]]_vars

Failed(n) == n <= Len(requests) /\ requests[n].err # <<>>

\* The failure of request n was handed to the error-handling stage, which
\* answered it.
Delivered(n) == n <= Len(requests) /\ requests[n].outcome = "handled"

\* After the layer that failed, the request entered the error-handling stage
\* and no other, and that stage is the last layer.
OnlyErrorStageAfterFailure(n) ==
  Failed(n) =>
    LET r == requests[n]
        layers == Layers(r)
    IN  /\ layers[Len(layers)].kind = "errorHandler"
        /\ \A j \in 1..Len(r.trail) :
             r.trail[j] > r.err[1] => r.trail[j] = Len(layers)

\* C10: a failure raised by any stage before the error-handling stage is
\* eventually delivered to the error-handling stage, the last one, and to no
\* stage in between.
C10_FailureReachesErrorStage ==
  /\ [](\A n \in 1..MaxPending : OnlyErrorStageAfterFailure(n))
  /\ \A n \in 1..MaxPending : Failed(n) ~> Delivered(n)

C10_Witness ==
  /\ Delivered(1)
  /\ Layers(requests[1])[requests[1].err[1]].kind = "handler"
  /\ Len(Layers(requests[1])) >= 6

====
